---- MODULE Spec2Model ----
(***************************************************************************)
(* Model of idea_generator_app.py: the Streamlit script that loads a       *)
(* spreadsheet of patent abstracts, scores every abstract with a remote    *)
(* call, selects the top-N rows, asks for a synthesized solution text and  *)
(* then for a product image.  Every remote call sits in a retry loop with  *)
(* exponential backoff.                                                    *)
(*                                                                         *)
(* Text is modelled as a sequence of one-character strings (abstracts as   *)
(* a sequence of tokens).  A Python float that was parsed from a decimal   *)
(* literal is modelled as the exact decimal [n |-> digits, e |-> number of *)
(* fractional digits], normalised so that equal numbers are equal records. *)
(***************************************************************************)
EXTENDS Integers, Sequences, FiniteSets, TLC

(***************************************************************************)
(* Bounds of the model.                                                    *)
(***************************************************************************)
MaxRows == 3          \* rows of an uploaded table
MaxRetriesBound == 3  \* max_retries slider explored over 1..MaxRetriesBound
MaxBackoffBound == 2  \* backoff_time slider explored over 1..MaxBackoffBound
TopNSpan == 1         \* top_n slider explored over TopNMin..TopNMin+TopNSpan
MaxLen == 3           \* length of the texts given to extract_percentage
MaxInt == 12          \* non-text integer inputs -1..MaxInt
MaxSelRows == 4       \* rows of the scored tables given to nlargest
MaxSelN == 5          \* values of n given to nlargest: 0..MaxSelN

(***************************************************************************)
(* Program constants.                                                      *)
(***************************************************************************)
TopNMin == 5          \* st.slider("抽出する関連特許数", 5, 50, 20)
RetriesMin == 1       \* st.slider("API最大リトライ回数", 1, 10, 3)
BackoffMin == 1       \* st.slider("初期バックオフ時間（秒）", 1, 10, 2)

(***************************************************************************)
(* Text helpers.                                                           *)
(***************************************************************************)
DigitChar == <<"0", "1", "2", "3", "4", "5", "6", "7", "8", "9">>

IsDigit(c) == \E d \in 1..10 : DigitChar[d] = c

DigitVal(c) == (CHOOSE d \in 1..10 : DigitChar[d] = c) - 1

IsSpace(c) == c = " "

Min(a, b) == IF a <= b THEN a ELSE b

\* the digits of a string of digits, read as a natural number
RECURSIVE DigitsValue(_)
DigitsValue(ds) ==
    IF ds = <<>> THEN 0
    ELSE 10 * DigitsValue(SubSeq(ds, 1, Len(ds) - 1)) + DigitVal(ds[Len(ds)])

\* a decimal n / 10^e with no trailing zero in its fractional digits
RECURSIVE Normalize(_)
Normalize(f) ==
    IF f.e > 0 /\ f.n % 10 = 0 THEN Normalize([n |-> f.n \div 10, e |-> f.e - 1])
    ELSE f

Zero == [n |-> 0, e |-> 0]

NoFloat == [n |-> -1, e |-> 0]

\* float("<ip>") or float("<ip>.<fp>")
float(ip, fp) == Normalize([n |-> DigitsValue(ip \o fp), e |-> Len(fp)])

FloatLE(a, b) == a.n * (10 ^ b.e) <= b.n * (10 ^ a.e)

FloatLT(a, b) == a.n * (10 ^ b.e) < b.n * (10 ^ a.e)

\* str.strip(): leading and trailing whitespace removed
RECURSIVE strip(_)
strip(s) ==
    IF s = <<>> THEN s
    ELSE IF IsSpace(s[1]) THEN strip(Tail(s))
    ELSE IF IsSpace(s[Len(s)]) THEN strip(SubSeq(s, 1, Len(s) - 1))
    ELSE s

(***************************************************************************)
(* Python values that extract_percentage may be handed.                    *)
(***************************************************************************)
PyStr(s) == [kind |-> "str", s |-> s, n |-> 0]
PyInt(n) == [kind |-> "int", s |-> <<>>, n |-> n]
PyNone == [kind |-> "None", s |-> <<>>, n |-> 0]
PyNaN == [kind |-> "nan", s |-> <<>>, n |-> 0]
PyBadStr == [kind |-> "badstr", s |-> <<>>, n |-> 0]

RECURSIVE NatDigits(_)
NatDigits(n) ==
    IF n < 10 THEN <<DigitChar[n + 1]>>
    ELSE NatDigits(n \div 10) \o <<DigitChar[(n % 10) + 1]>>

\* str(x): [exc |-> whether __str__ raised, s |-> the text]
str(x) ==
    CASE x.kind = "str" -> [exc |-> FALSE, s |-> x.s]
      [] x.kind = "int" ->
            [exc |-> FALSE,
             s |-> IF x.n < 0 THEN <<"-">> \o NatDigits(-x.n) ELSE NatDigits(x.n)]
      [] x.kind = "None" -> [exc |-> FALSE, s |-> <<"N", "o", "n", "e">>]
      [] x.kind = "nan" -> [exc |-> FALSE, s |-> <<"n", "a", "n">>]
      [] OTHER -> [exc |-> TRUE, s |-> <<>>]

(***************************************************************************)
(* extract_percentage                                                      *)
(***************************************************************************)
\* the end of the maximal run of digits of s that starts at p
RECURSIVE DigitRunEnd(_, _)
DigitRunEnd(s, p) ==
    IF p < Len(s) /\ IsDigit(s[p + 1]) THEN DigitRunEnd(s, p + 1) ELSE p

\* re.search(r'(\d+(?:\.\d+)?)', s): the leftmost match, greedy.
\* [found, ip, fp]: the integer and the fractional digits of group 1
re_search(s) ==
    IF \A p \in 1..Len(s) : ~IsDigit(s[p])
    THEN [found |-> FALSE, ip |-> <<>>, fp |-> <<>>]
    ELSE LET p == CHOOSE q \in 1..Len(s) :
                      IsDigit(s[q]) /\ \A r \in 1..(q - 1) : ~IsDigit(s[r])
             q == DigitRunEnd(s, p)
             frac == q + 2 <= Len(s) /\ s[q + 1] = "." /\ IsDigit(s[q + 2])
         IN  [found |-> TRUE,
              ip |-> SubSeq(s, p, q),
              fp |-> IF frac THEN SubSeq(s, q + 2, DigitRunEnd(s, q + 2)) ELSE <<>>]

\* the body of the try block: [exc, value]
extract_try(percentage_str) ==
    LET t == str(percentage_str)
    IN  IF t.exc THEN [exc |-> TRUE, value |-> Zero]
        ELSE LET match == re_search(t.s)
             IN  IF match.found
                 THEN [exc |-> FALSE, value |-> float(match.ip, match.fp)]
                 ELSE [exc |-> FALSE, value |-> Zero]

extract_percentage_unguarded(percentage_str) == extract_try(percentage_str)

\* try: ... except Exception: return 0.0
extract_percentage(percentage_str) ==
    LET r == extract_try(percentage_str)
    IN  IF r.exc THEN [exc |-> FALSE, value |-> Zero] ELSE r

(***************************************************************************)
(* The state of one run of the script.                                     *)
(***************************************************************************)
VARIABLES
    uploaded_file,      \* the upload: [kind, rows]
    gemini_api_key,     \* "" when the field was left empty
    top_n,              \* sliders
    max_retries,
    backoff_time,
    pc,                 \* "Idle", "Scoring", "Synthesizing", "ImageGenerating",
                        \* "Done", "Stopped" (st.stop) or "Failed" (uncaught exception)
    df,                 \* rows [abstract, relevance_str, relevance]
    i,                  \* the row df.iterrows() is at
    progress_count,
    total_items,
    progress_bar,       \* the fraction last given to progress_bar.progress
    call,               \* the retrying caller that runs or ran last
    called,             \* the endpoints a request has been made to
    sent,               \* the rows a scoring request was made for
    scored,             \* [row, reply] of every answered scoring request, in order
    image_response,     \* [received, parts]: what the last image request came back with
    pacing,             \* [sleeps, wait_time]: the sleeps of line 361, in tenths of a second
    top_n_relevance,    \* [done, rows]: the indices of the selected rows
    all_solutions_combined,
    recommend_solution_gemini,
    product_image,
    shown,              \* the messages the run has displayed
    raised,             \* the exception that ended the run, "" when none
    ep_in,              \* extract_percentage on its own: argument and result
    ep_out

vars == <<uploaded_file, gemini_api_key, top_n, max_retries, backoff_time, pc, df, i,
          progress_count, total_items, progress_bar, call, called, sent, scored,
          image_response, pacing, top_n_relevance, all_solutions_combined, recommend_solution_gemini,
          product_image, shown, raised, ep_in, ep_out>>

inputs == <<uploaded_file, gemini_api_key, top_n, max_retries, backoff_time>>

extractor == <<ep_in, ep_out>>

(***************************************************************************)
(* Values                                                                  *)
(***************************************************************************)
NaN == [isna |-> TRUE, text |-> <<>>]

Text(s) == [isna |-> FALSE, text |-> s]

\* pd.notna
notna(cell) == ~cell.isna

\* the abstract of spreadsheet row r when the cell is filled in
AbstractOf(r) == Text(<<"p" , DigitChar[r + 1]>>)

\* the '要約' columns of the tables explored: every cell either empty or filled in
Tables(maxRows) ==
    UNION {{[r \in 1..len |-> IF r \in filled THEN AbstractOf(r) ELSE NaN] :
               filled \in SUBSET (1..len)} : len \in 0..maxRows}

NoFile == [kind |-> "none", rows |-> <<>>]
Unreadable == [kind |-> "unreadable", rows |-> <<>>]
NoColumn == [kind |-> "nocolumn", rows |-> <<>>]
Workbook(rows) == [kind |-> "ok", rows |-> rows]

Uploads == {NoFile, Unreadable, NoColumn} \cup {Workbook(t) : t \in Tables(MaxRows)}

\* response.text of the scoring endpoint
ScoreReplies == {<<"9", "0">>, <<" ", "7", ".", "5", "%">>, <<"n", "o">>}

\* response.text of the synthesis endpoint
SolutionReplies == {<<"s">>, <<>>}

\* response.candidates[0].content.parts of the image endpoint: "text" has no
\* inline_data, "png1"/"png2" carry an image, "corrupt" carries bytes that
\* Image.open rejects
ImageResponses == {<<>>, <<"text">>, <<"text", "png1">>, <<"png2", "png1">>,
                   <<"text", "corrupt", "png1">>}

has_inline_data(part) == part # "text"

None == "None"

NotCalled == [fn |-> "", attempt |-> 0, attempts |-> 0, fails |-> 0,
              sleeps |-> <<>>, status |-> "idle"]

NewCall(fn) == [fn |-> fn, attempt |-> 0, attempts |-> 0, fails |-> 0,
                sleeps |-> <<>>, status |-> "running"]

\* the invocation an attempt of fn belongs to
Current(fn) == IF call.fn = fn /\ call.status = "running" THEN call ELSE NewCall(fn)

(***************************************************************************)
(* The retry loop shared (by copy) by the three callers.                   *)
(***************************************************************************)
sleep_time_linear(backoff, attempt) == backoff * (2 * attempt)

\* sleep_time = backoff_time * (2 ** attempt)
sleep_time(backoff, attempt) == backoff * (2 ^ attempt)

has_retry_left_off_by_one(attempt) == attempt < max_retries

\* if attempt < max_retries - 1
has_retry_left(attempt) == attempt < max_retries - 1

\* except branch with attempts left: time.sleep(sleep_time), next attempt
Retry(c) == [c EXCEPT !.attempts = @ + 1, !.fails = @ + 1,
                      !.sleeps = Append(@, sleep_time(backoff_time, c.attempt)),
                      !.attempt = @ + 1]

\* except branch of the last attempt
Exhausted(c, how) == [c EXCEPT !.attempts = @ + 1, !.fails = @ + 1, !.status = how]

\* return from the try block
Returned(c) == [c EXCEPT !.attempts = @ + 1, !.status = "returned"]

calculate_wait_time_default(model) == 1

\* seconds, here in tenths of a second: 60 / 30, or 0.1
calculate_wait_time(model) ==
    IF model = "gemini-2.0-flash-lite" THEN (60 * 10) \div 30 ELSE 1

(***************************************************************************)
(* Top-N selection and the combined synthesis input.                       *)
(***************************************************************************)
FloatEQ(a, b) == FloatLE(a, b) /\ FloatLE(b, a)

\* the row of S that comes first in a descending stable order of relevance
First(table, S) ==
    CHOOSE r \in S : \A o \in S :
        \/ FloatLT(table[o].relevance, table[r].relevance)
        \/ FloatEQ(table[o].relevance, table[r].relevance) /\ r <= o

Last(table, S) ==
    CHOOSE r \in S : \A o \in S :
        \/ FloatLT(table[o].relevance, table[r].relevance)
        \/ FloatEQ(table[o].relevance, table[r].relevance) /\ r >= o

RECURSIVE TakeFirst(_, _, _)
TakeFirst(table, S, n) ==
    IF n <= 0 \/ S = {} THEN <<>>
    ELSE LET r == First(table, S)
         IN  <<r>> \o TakeFirst(table, S \ {r}, n - 1)

RECURSIVE TakeLast(_, _, _)
TakeLast(table, S, n) ==
    IF n <= 0 \/ S = {} THEN <<>>
    ELSE LET r == Last(table, S)
         IN  <<r>> \o TakeLast(table, S \ {r}, n - 1)

nlargest_keep_last(table, n) == TakeLast(table, 1..Len(table), n)

\* df.nlargest(n, 'relevance'), keep='first': the indices of the n rows of largest
\* relevance, in descending order, equal values in the order of the table
nlargest(table, n) == TakeFirst(table, 1..Len(table), n)

\* ' '.join(cells): TypeError when an item is no str (a NaN cell is a float)
RECURSIVE join(_)
join(cells) ==
    IF \E k \in 1..Len(cells) : cells[k].isna THEN [exc |-> TRUE, s |-> <<>>]
    ELSE IF cells = <<>> THEN [exc |-> FALSE, s |-> <<>>]
    ELSE IF Len(cells) = 1 THEN [exc |-> FALSE, s |-> cells[1].text]
    ELSE [exc |-> FALSE, s |-> cells[1].text \o <<" ">> \o join(Tail(cells)).s]

(***************************************************************************)
(* Init                                                                    *)
(***************************************************************************)
RunNotStarted ==
    /\ pc = "Idle"
    /\ df = <<>>
    /\ i = 0
    /\ progress_count = 0
    /\ total_items = 0
    /\ progress_bar = [num |-> 0, den |-> 1]
    /\ call = NotCalled
    /\ called = {}
    /\ sent = {}
    /\ scored = <<>>
    /\ image_response = [received |-> FALSE, parts |-> <<>>]
    /\ pacing = [sleeps |-> 0, wait_time |-> 0]
    /\ top_n_relevance = [done |-> FALSE, rows |-> <<>>]
    /\ all_solutions_combined = <<>>
    /\ recommend_solution_gemini = None
    /\ product_image = None
    /\ shown = {}
    /\ raised = ""

ExtractorIdle ==
    /\ ep_in = PyNone
    /\ ep_out = [done |-> FALSE, exc |-> FALSE, value |-> Zero]

Init ==
    /\ uploaded_file \in Uploads
    /\ gemini_api_key \in {"", "key"}
    /\ top_n \in TopNMin..(TopNMin + TopNSpan)
    /\ max_retries \in RetriesMin..MaxRetriesBound
    /\ backoff_time \in BackoffMin..MaxBackoffBound
    /\ RunNotStarted
    /\ ExtractorIdle

(***************************************************************************)
(* The button is pressed: input checks, load_data, the column check and    *)
(* the preparation of the scoring loop (lines 303-339).                    *)
(***************************************************************************)
Stop(message) ==
    /\ shown' = shown \cup {message}
    /\ pc' = "Stopped"
    /\ UNCHANGED <<df, i, progress_count, total_items, progress_bar>>

input_check_without_column ==
    IF uploaded_file.kind = "none" THEN "upload_missing"
    ELSE IF gemini_api_key = "" THEN "api_key_missing"
    ELSE IF uploaded_file.kind = "unreadable" THEN "load_error"
    ELSE ""

\* the checks in their order: the st.error shown before st.stop(), "" when all pass
input_check ==
    IF uploaded_file.kind = "none" THEN "upload_missing"
    ELSE IF gemini_api_key = "" THEN "api_key_missing"
    ELSE IF uploaded_file.kind = "unreadable" THEN "load_error"
    ELSE IF uploaded_file.kind = "nocolumn" THEN "column_missing"
    ELSE ""

StartAnalysis ==
    /\ pc = "Idle"
    /\ IF input_check # "" THEN Stop(input_check)
       ELSE /\ df' = [r \in 1..Len(uploaded_file.rows) |->
                        [abstract |-> uploaded_file.rows[r],
                         relevance_str |-> <<>>,
                         relevance |-> NoFloat]]
            /\ total_items' = Cardinality({r \in 1..Len(uploaded_file.rows) :
                                             notna(uploaded_file.rows[r])})
            /\ progress_bar' = [num |-> 0, den |-> 1]
            /\ progress_count' = 0
            /\ i' = 1
            /\ shown' = shown \cup {"load_success"}
            /\ pc' = "Scoring"
    /\ UNCHANGED <<inputs, extractor, call, called, sent, scored, image_response,
                   pacing, top_n_relevance, all_solutions_combined,
                   recommend_solution_gemini, product_image, raised>>

(***************************************************************************)
(* The scoring loop (lines 341-361) around generate_relevance_gemini       *)
(* (lines 125-142).  One step per row without abstract, one per request.   *)
(***************************************************************************)
SkipRow ==
    /\ pc = "Scoring"
    /\ i <= Len(df)
    /\ ~notna(df[i].abstract)
    /\ i' = i + 1
    /\ UNCHANGED <<inputs, extractor, pc, df, progress_count, total_items, progress_bar,
                   call, called, sent, scored, image_response, pacing, top_n_relevance,
                   all_solutions_combined, recommend_solution_gemini, product_image,
                   shown, raised>>

\* the value is stored on the row, the count advances, the pacing sleep is taken
RowScored(relevance) ==
    /\ df' = [df EXCEPT ![i].relevance_str = relevance]
    /\ progress_count' = progress_count + 1
    /\ pacing' = [sleeps |-> pacing.sleeps + 1,
                  wait_time |-> calculate_wait_time("gemini-2.0-flash-lite")]
    /\ i' = i + 1

relevance_exhausted_returns_none(c) ==
    /\ call' = Exhausted(c, "returned_none")
    /\ shown' = shown \cup {"max_retries_reached"}
    /\ RowScored(<<"N", "o", "n", "e">>)
    /\ UNCHANGED <<pc, raised>>

\* else: st.error(...); raise -- nothing catches it, the run ends
relevance_exhausted(c) ==
    /\ call' = Exhausted(c, "raised")
    /\ shown' = shown \cup {"max_retries_reached"}
    /\ raised' = "RemoteCallError"
    /\ pc' = "Failed"
    /\ UNCHANGED <<df, i, progress_count, pacing>>

RelevanceSucceeds(reply) ==
    LET c == Current("generate_relevance_gemini")
    IN  /\ pc = "Scoring"
        /\ i <= Len(df)
        /\ notna(df[i].abstract)
        /\ c.attempt < max_retries
        /\ called' = called \cup {"scoring"}
        /\ sent' = sent \cup {i}
        /\ scored' = Append(scored, [row |-> i, reply |-> reply])
        /\ progress_bar' = [num |-> progress_count + 1, den |-> total_items]
        /\ call' = Returned(c)
        /\ RowScored(strip(reply))
        /\ UNCHANGED <<inputs, extractor, pc, total_items, image_response, top_n_relevance,
                       all_solutions_combined, recommend_solution_gemini,
                       product_image, shown, raised>>

RelevanceFails ==
    LET c == Current("generate_relevance_gemini")
    IN  /\ pc = "Scoring"
        /\ i <= Len(df)
        /\ notna(df[i].abstract)
        /\ c.attempt < max_retries
        /\ called' = called \cup {"scoring"}
        /\ sent' = sent \cup {i}
        /\ IF has_retry_left(c.attempt)
           THEN IF c.attempt + 1 < max_retries
                THEN /\ call' = Retry(c)
                     /\ UNCHANGED <<pc, df, i, progress_count, pacing, shown, raised>>
                ELSE \* the loop ends without a return: the caller gets None
                     /\ call' = [Retry(c) EXCEPT !.status = "fell_through"]
                     /\ RowScored(<<"N", "o", "n", "e">>)
                     /\ UNCHANGED <<pc, shown, raised>>
           ELSE relevance_exhausted(c)
        /\ UNCHANGED <<inputs, extractor, total_items, progress_bar, scored,
                       image_response, top_n_relevance,
                       all_solutions_combined, recommend_solution_gemini,
                       product_image>>

(***************************************************************************)
(* After the loop: the conversion of the replies, the selection and the    *)
(* combined text (lines 363-377).                                          *)
(***************************************************************************)
SelectTopN ==
    /\ pc = "Scoring"
    /\ i > Len(df)
    /\ LET converted == [r \in 1..Len(df) |->
                        [df[r] EXCEPT !.relevance =
                            extract_percentage(PyStr(df[r].relevance_str)).value]]
           rows == nlargest(converted, top_n)
           solutions_list == [k \in 1..Len(rows) |-> converted[rows[k]].abstract]
           joined == join(solutions_list)
       IN  /\ df' = converted
           /\ top_n_relevance' = [done |-> TRUE, rows |-> rows]
           /\ IF joined.exc
              THEN /\ raised' = "TypeError"
                   /\ pc' = "Failed"
                   /\ UNCHANGED all_solutions_combined
              ELSE /\ all_solutions_combined' = joined.s
                   /\ pc' = "Synthesizing"
                   /\ UNCHANGED raised
    /\ UNCHANGED <<inputs, extractor, i, progress_count, total_items, progress_bar,
                   call, called, sent, scored, image_response, pacing,
                   recommend_solution_gemini, product_image, shown>>

(***************************************************************************)
(* The synthesis stage (lines 380-393) around generate_solution_gemini     *)
(* (lines 165-177), and the branch that opens the image stage (396-398,    *)
(* 435-436).                                                               *)
(***************************************************************************)
\* st.write(recommend_solution_gemini); if recommend_solution_gemini: ... else: ...
SolutionWritten(text) ==
    /\ recommend_solution_gemini' = text
    /\ IF text # None /\ text # <<>>
       THEN /\ pc' = "ImageGenerating"
            /\ shown' = shown \cup {"solution_written"}
       ELSE /\ pc' = "Done"
            /\ shown' = shown \cup {"solution_written", "image_skipped"}

\* else: st.error(...); raise -- nothing catches it, the run ends
solution_exhausted(c) ==
    /\ call' = Exhausted(c, "raised")
    /\ shown' = shown \cup {"max_retries_reached"}
    /\ raised' = "RemoteCallError"
    /\ pc' = "Failed"
    /\ UNCHANGED recommend_solution_gemini

SolutionSucceeds(reply) ==
    LET c == Current("generate_solution_gemini")
    IN  /\ pc = "Synthesizing"
        /\ c.attempt < max_retries
        /\ called' = called \cup {"synthesis"}
        /\ call' = Returned(c)
        /\ SolutionWritten(reply)
        /\ UNCHANGED <<inputs, extractor, df, i, progress_count, total_items,
                       progress_bar, sent, scored, image_response, pacing,
                       top_n_relevance, all_solutions_combined, product_image, raised>>

SolutionFails ==
    LET c == Current("generate_solution_gemini")
    IN  /\ pc = "Synthesizing"
        /\ c.attempt < max_retries
        /\ called' = called \cup {"synthesis"}
        /\ IF has_retry_left(c.attempt)
           THEN IF c.attempt + 1 < max_retries
                THEN /\ call' = Retry(c)
                     /\ UNCHANGED <<pc, shown, raised, recommend_solution_gemini>>
                ELSE \* the loop ends without a return: the caller gets None
                     /\ call' = [Retry(c) EXCEPT !.status = "fell_through"]
                     /\ SolutionWritten(None)
                     /\ UNCHANGED raised
           ELSE solution_exhausted(c)
        /\ UNCHANGED <<inputs, extractor, df, i, progress_count, total_items,
                       progress_bar, sent, scored, image_response, pacing,
                       top_n_relevance, all_solutions_combined, product_image>>

(***************************************************************************)
(* The image stage (lines 399-434) around generate_image_from_solution     *)
(* (lines 200-226).                                                        *)
(***************************************************************************)
HasImage(parts) == \E k \in 1..Len(parts) : has_inline_data(parts[k])

LastImage(parts) ==
    parts[CHOOSE k \in 1..Len(parts) :
              has_inline_data(parts[k]) /\ \A j \in (k + 1)..Len(parts) : ~has_inline_data(parts[j])]

\* for part in parts: if part.inline_data is not None: ... : the part the loop stops at
FirstImage(parts) ==
    parts[CHOOSE k \in 1..Len(parts) :
              has_inline_data(parts[k]) /\ \A j \in 1..(k - 1) : ~has_inline_data(parts[j])]

\* Image.open(BytesIO(part.inline_data.data)) raises on bytes that are no image
Decodable(part) == part # "corrupt"

\* if product_image: show it and offer the download; else: st.error
ImageShown(image) ==
    /\ product_image' = image
    /\ pc' = "Done"

\* else: st.error(...); return None -- the caller shows its own st.error
image_exhausted(c) ==
    /\ call' = Exhausted(c, "returned_none")
    /\ ImageShown(None)
    /\ shown' = shown \cup {"max_retries_reached", "image_failed"}

ImageRetryOrGiveUp(c) ==
    IF has_retry_left(c.attempt) /\ c.attempt + 1 < max_retries
    THEN /\ call' = Retry(c)
         /\ UNCHANGED <<pc, shown, product_image>>
    ELSE IF has_retry_left(c.attempt)
    THEN \* the loop ends without a return: the caller gets None
         /\ call' = [Retry(c) EXCEPT !.status = "fell_through"]
         /\ ImageShown(None)
         /\ shown' = shown \cup {"image_failed"}
    ELSE image_exhausted(c)

ImageResponds(parts) ==
    LET c == Current("generate_image_from_solution")
    IN  /\ pc = "ImageGenerating"
        /\ c.attempt < max_retries
        /\ called' = called \cup {"image"}
        /\ image_response' = [received |-> TRUE, parts |-> parts]
        /\ IF HasImage(parts)
           THEN IF Decodable(FirstImage(parts))
                THEN /\ call' = Returned(c)
                     /\ ImageShown(FirstImage(parts))
                     /\ shown' = shown \cup {"image_displayed"}
                ELSE ImageRetryOrGiveUp(c)
           ELSE /\ call' = Returned(c)
                /\ ImageShown(None)
                /\ shown' = shown \cup {"image_not_generated", "image_failed"}
        /\ UNCHANGED <<inputs, extractor, df, i, progress_count, total_items,
                       progress_bar, sent, scored, pacing, top_n_relevance,
                       all_solutions_combined, recommend_solution_gemini, raised>>

ImageFails ==
    LET c == Current("generate_image_from_solution")
    IN  /\ pc = "ImageGenerating"
        /\ c.attempt < max_retries
        /\ called' = called \cup {"image"}
        /\ image_response' = [received |-> FALSE, parts |-> <<>>]
        /\ ImageRetryOrGiveUp(c)
        /\ UNCHANGED <<inputs, extractor, df, i, progress_count, total_items,
                       progress_bar, sent, scored, pacing, top_n_relevance,
                       all_solutions_combined, recommend_solution_gemini, raised>>

(***************************************************************************)
(* The run.                                                                *)
(***************************************************************************)
Next ==
    \/ StartAnalysis
    \/ SkipRow
    \/ \E reply \in ScoreReplies : RelevanceSucceeds(reply)
    \/ RelevanceFails
    \/ SelectTopN
    \/ \E reply \in SolutionReplies : SolutionSucceeds(reply)
    \/ SolutionFails
    \/ \E parts \in ImageResponses : ImageResponds(parts)
    \/ ImageFails

Spec == Init /\ [][Next]_vars

(***************************************************************************)
(* extract_percentage on its own, over every short text and some values    *)
(* that are no text.                                                       *)
(***************************************************************************)
Alphabet == {"0", "5", "7", ".", "%", "a"}

Texts(maxLen) == UNION {[1..k -> Alphabet] : k \in 0..maxLen}

ExtractInputs ==
    {PyStr(s) : s \in Texts(MaxLen)} \cup {PyInt(n) : n \in (-1)..MaxInt}
        \cup {PyNone, PyNaN, PyBadStr}

InitExtract ==
    /\ uploaded_file = NoFile
    /\ gemini_api_key = ""
    /\ top_n = TopNMin
    /\ max_retries = RetriesMin
    /\ backoff_time = BackoffMin
    /\ RunNotStarted
    /\ ep_in \in ExtractInputs
    /\ ep_out = [done |-> FALSE, exc |-> FALSE, value |-> Zero]

ExtractStep ==
    /\ ~ep_out.done
    /\ LET r == extract_percentage(ep_in)
       IN  ep_out' = [done |-> TRUE, exc |-> r.exc, value |-> r.value]
    /\ UNCHANGED <<inputs, ep_in, pc, df, i, progress_count, total_items, progress_bar,
                   call, called, sent, scored, image_response, pacing, top_n_relevance,
                   all_solutions_combined, recommend_solution_gemini, product_image,
                   shown, raised>>

NextExtract == ExtractStep

SpecExtract == InitExtract /\ [][NextExtract]_vars

(***************************************************************************)
(* The selection for every n, the slider's range or not: the run with      *)
(* every scoring request answered at once, up to the selection.            *)
(***************************************************************************)
InitTopN ==
    /\ uploaded_file \in {Workbook(t) : t \in Tables(MaxSelRows)}
    /\ gemini_api_key = "key"
    /\ top_n \in 0..MaxSelN
    /\ max_retries = RetriesMin
    /\ backoff_time = BackoffMin
    /\ RunNotStarted
    /\ ExtractorIdle

NextTopN ==
    \/ StartAnalysis
    \/ SkipRow
    \/ \E reply \in ScoreReplies : RelevanceSucceeds(reply)
    \/ SelectTopN

SpecTopN == InitTopN /\ [][NextTopN]_vars

(***************************************************************************)
(* Properties.                                                             *)
(***************************************************************************)
Callers == {"generate_relevance_gemini", "generate_solution_gemini",
            "generate_image_from_solution"}

\* the sleeps of a caller whose request failed k times: backoff_time * 2^0, ..., 2^(k-1)
BackoffSleeps(k) == [j \in 1..k |-> backoff_time * (2 ^ (j - 1))]

\* C1: in each of the three retrying callers, a request that fails k times and is
\* then answered, with max_retries >= k + 1, makes the caller return after exactly
\* k + 1 attempts and exactly k sleeps, the j-th lasting backoff_time * 2^(j-1), with
\* no sleep after the answered attempt; the caller gives up only after max_retries
\* failures.
C1_RetryThenSuccess ==
    /\ call.status = "returned" =>
          /\ call.fn \in Callers
          /\ call.fails + 1 <= max_retries
          /\ call.attempts = call.fails + 1
          /\ call.sleeps = BackoffSleeps(call.fails)
    /\ call.status = "running" =>
          /\ call.fails < max_retries
          /\ call.attempts = call.fails
          /\ call.sleeps = BackoffSleeps(call.fails)
    /\ call.status \notin {"idle", "running", "returned"} => call.fails = max_retries

C1_Witness ==
    /\ call.fn = "generate_image_from_solution"
    /\ call.status = "returned"
    /\ call.fails = 2
    /\ backoff_time = 2
    /\ call.sleeps = <<2, 4>>
    /\ product_image = "png2"
    /\ \E r \in 1..Len(df) : notna(df[r].abstract)

\* C2 as stated: whichever of the three callers it is, when every one of its
\* max_retries requests fails it makes exactly max_retries attempts and then raises.
C2_EveryCallerRaises ==
    call.fails = max_retries =>
        /\ call.attempts = max_retries
        /\ Len(call.sleeps) = max_retries - 1
        /\ call.status = "raised"
        /\ raised = "RemoteCallError"

\* C2 amended: when every one of the max_retries requests fails, each caller makes
\* exactly max_retries attempts and sleeps max_retries - 1 times (not after the last
\* failure); generate_relevance_gemini and generate_solution_gemini then raise the
\* error to their caller; generate_image_from_solution raises nothing and returns
\* None.  No caller gives up earlier.
C2_ExhaustedCallers ==
    /\ call.fails = max_retries =>
          /\ call.attempts = max_retries
          /\ call.sleeps = BackoffSleeps(max_retries - 1)
          /\ call.fn \in {"generate_relevance_gemini", "generate_solution_gemini"} =>
                call.status = "raised" /\ raised = "RemoteCallError"
          /\ call.fn = "generate_image_from_solution" =>
                /\ call.status = "returned_none"
                /\ raised = ""
                /\ product_image = None
    /\ call.status \in {"raised", "returned_none"} => call.fails = max_retries
    /\ raised = "RemoteCallError" => call.status = "raised"

C2_Witness ==
    /\ call.fn = "generate_image_from_solution"
    /\ max_retries = 2
    /\ call.fails = 2
    /\ call.status = "returned_none"

\* C3: a run whose upload is missing, whose API key is empty, whose file cannot be
\* read or whose table has no '要約' column stops with no remote request made and
\* no later stage entered.
C3_BadInputStopsBeforeAnyCall ==
    (pc # "Idle" /\ (uploaded_file.kind # "ok" \/ gemini_api_key = "")) =>
        /\ pc = "Stopped"
        /\ called = {}
        /\ sent = {}
        /\ call = NotCalled
        /\ ~top_n_relevance.done
        /\ recommend_solution_gemini = None
        /\ product_image = None
        /\ shown \in {{"upload_missing"}, {"api_key_missing"}, {"load_error"},
                      {"column_missing"}}

C3_Witness ==
    /\ pc = "Stopped"
    /\ uploaded_file.kind = "nocolumn"
    /\ gemini_api_key # ""
    /\ shown = {"column_missing"}

\* C4: when the scoring request of a row fails max_retries times the run ends there:
\* no later row is sent or scored, no selection is computed, and neither the
\* synthesis nor the image endpoint is ever called.
C4_ScoringFailureAborts ==
    (call.fn = "generate_relevance_gemini" /\ call.fails = max_retries) =>
        /\ pc = "Failed"
        /\ raised = "RemoteCallError"
        /\ i \in 1..Len(df)
        /\ \A r \in i..Len(df) : df[r].relevance_str = <<>>
        /\ \A r \in sent : r <= i
        /\ \A k \in 1..Len(scored) : scored[k].row < i
        /\ \A r \in 1..Len(df) : df[r].relevance = NoFloat
        /\ ~top_n_relevance.done
        /\ called = {"scoring"}
        /\ recommend_solution_gemini = None
        /\ product_image = None

C4_Witness ==
    /\ call.fn = "generate_relevance_gemini"
    /\ call.fails = max_retries
    /\ max_retries = 2
    /\ Len(df) = 3
    /\ i = 2
    /\ Len(scored) = 1
    /\ notna(df[3].abstract)

\* C5 as stated: when the synthesis request fails max_retries times the run goes on
\* to the image stage, where no image request is made and the "skipped because no
\* solution was generated" message is shown.
C5_SynthesisFailureSkipsImage ==
    (call.fn = "generate_solution_gemini" /\ call.fails = max_retries) =>
        /\ pc = "Done"
        /\ raised = ""
        /\ "image_skipped" \in shown
        /\ "image" \notin called

Selected == {top_n_relevance.rows[k] : k \in 1..Len(top_n_relevance.rows)}

RECURSIVE SpaceSeparated(_)
SpaceSeparated(rows) ==
    IF rows = <<>> THEN <<>>
    ELSE IF Len(rows) = 1 THEN df[rows[1]].abstract.text
    ELSE df[rows[1]].abstract.text \o <<" ">> \o SpaceSeparated(Tail(rows))

\* C7 as stated: for every loaded table, rows without abstract included, once the
\* scoring is over the combined text is built without failure and is the selected
\* rows' abstracts with single spaces between them, in the order of the selection:
\* the text the synthesis requests are made with.
C7_CombinedInputAlwaysBuilt ==
    top_n_relevance.done =>
        /\ raised # "TypeError"
        /\ all_solutions_combined = SpaceSeparated(top_n_relevance.rows)
        /\ \A r \in Selected : notna(df[r].abstract)

HasDigit(s) == \E p \in 1..Len(s) : IsDigit(s[p])

\* v is the first number of s: the leftmost maximal run of digits s[p..q], with
\* the fractional part ".digits" s[q+1..r] when one follows it
IsFirstNumber(s, v) ==
    \E p \in 1..Len(s) : \E q \in p..Len(s) : \E r \in q..Len(s) :
        /\ \A k \in 1..(p - 1) : ~IsDigit(s[k])
        /\ \A k \in p..q : IsDigit(s[k])
        /\ q = Len(s) \/ ~IsDigit(s[q + 1])
        /\ IF q + 2 <= Len(s) /\ s[q + 1] = "." /\ IsDigit(s[q + 2])
           THEN /\ r >= q + 2
                /\ \A k \in (q + 2)..r : IsDigit(s[k])
                /\ r = Len(s) \/ ~IsDigit(s[r + 1])
                /\ FloatEQ(v, [n |-> DigitsValue(SubSeq(s, p, q) \o SubSeq(s, q + 2, r)),
                               e |-> r - q - 1])
           ELSE /\ r = q
                /\ FloatEQ(v, [n |-> DigitsValue(SubSeq(s, p, q)), e |-> 0])

\* C8 as stated: extract_percentage never raises; a text with a number in it gives
\* that number, and a text without a digit, or an argument that is no text, gives 0.0.
C8_NonTextGivesZero ==
    ep_out.done =>
        /\ ~ep_out.exc
        /\ (ep_in.kind = "str" /\ HasDigit(ep_in.s)) => IsFirstNumber(ep_in.s, ep_out.value)
        /\ (ep_in.kind = "str" /\ ~HasDigit(ep_in.s)) => ep_out.value = Zero
        /\ ep_in.kind # "str" => ep_out.value = Zero

\* C8 amended: extract_percentage never raises; the argument is first turned into
\* text with str(); when that text holds a digit the result is its first number (the
\* leftmost maximal run of digits with its fractional part, if any), also for an
\* argument that is no text (the integer 12 gives 12.0, -1 gives 1.0); the result is
\* 0.0 when the text holds no digit (None, NaN, "no") or when str() itself raises.
C8_FirstNumberOfTextForm ==
    ep_out.done =>
        /\ ~ep_out.exc
        /\ ep_in.kind = "badstr" => ep_out.value = Zero
        /\ ep_in.kind \in {"None", "nan"} => ep_out.value = Zero
        /\ ep_in.kind = "int" =>
              ep_out.value = [n |-> IF ep_in.n < 0 THEN -ep_in.n ELSE ep_in.n, e |-> 0]
        /\ (ep_in.kind = "str" /\ HasDigit(ep_in.s)) =>
              IsFirstNumber(ep_in.s, ep_out.value)
        /\ (ep_in.kind = "str" /\ ~HasDigit(ep_in.s)) => ep_out.value = Zero

C8_Witness ==
    /\ ep_out.done
    /\ ep_in = PyStr(<<"7", ".", "5">>)
    /\ ep_out.value = [n |-> 75, e |-> 1]

\* C9: an image response with no image-bearing part makes
\* generate_image_from_solution return None at once (no retry and no sleep for that
\* attempt), the run shows the image-failure message and ends without an exception;
\* an image that is returned is the first image-bearing part of the response.
C9_ImageResponseHandling ==
    /\ (call.fn = "generate_image_from_solution" /\ image_response.received
            /\ ~HasImage(image_response.parts)) =>
          /\ call.status = "returned"
          /\ call.attempts = call.fails + 1
          /\ Len(call.sleeps) = call.fails
          /\ product_image = None
          /\ {"image_not_generated", "image_failed"} \subseteq shown
          /\ pc = "Done"
          /\ raised = ""
    /\ product_image # None =>
          /\ call.fn = "generate_image_from_solution"
          /\ call.status = "returned"
          /\ image_response.received
          /\ \E k \in 1..Len(image_response.parts) :
                /\ image_response.parts[k] = product_image
                /\ has_inline_data(image_response.parts[k])
                /\ \A j \in 1..(k - 1) : ~has_inline_data(image_response.parts[j])
          /\ pc = "Done"
          /\ "image_failed" \notin shown

C9_Witness ==
    /\ call.fn = "generate_image_from_solution"
    /\ image_response = [received |-> TRUE, parts |-> <<"text">>]
    /\ call.fails = 1
    /\ call.status = "returned"
    /\ "image_failed" \in shown

Eligible == {r \in 1..Len(df) : notna(df[r].abstract)}

\* the rows the loop has dealt with
Visited == {r \in 1..Len(df) : r < i}

\* C10: the loop goes through the rows in table order; a row is sent to the scoring
\* endpoint exactly when it has an abstract, gets one answered request, and the
\* stripped reply is stored on it; a row without abstract is never sent and ends
\* with relevance 0.0; every answered request is followed by the 2-second pacing
\* sleep before the next row's first request; the progress reported is (rows scored
\* so far) / (eligible rows), and is 1 with the last eligible row.
C10_ScoringLoop ==
    pc \in {"Scoring", "Synthesizing", "ImageGenerating", "Done", "Failed"} =>
        /\ i \in 1..(Len(df) + 1)
        /\ total_items = Cardinality(Eligible)
        /\ Len(scored) = Cardinality(Eligible \cap Visited)
        /\ \A k \in 1..Len(scored) :
              /\ scored[k].row \in Eligible \cap Visited
              /\ \A j \in 1..(k - 1) : scored[j].row < scored[k].row
              /\ df[scored[k].row].relevance_str = strip(scored[k].reply)
        /\ sent \subseteq Eligible
        /\ Eligible \cap Visited \subseteq sent
        /\ \A r \in sent : r <= i
        /\ \A r \in 1..Len(df) : ~notna(df[r].abstract) =>
              /\ df[r].relevance_str = <<>>
              /\ top_n_relevance.done => df[r].relevance = Zero
        /\ progress_count = Len(scored)
        /\ pacing.sleeps = Len(scored)
        /\ Len(scored) > 0 => pacing.wait_time = 2 * 10
        /\ progress_bar = IF Len(scored) = 0 THEN [num |-> 0, den |-> 1]
                          ELSE [num |-> Len(scored), den |-> Cardinality(Eligible)]
        /\ (i > Len(df) /\ Eligible # {}) => progress_bar.num = progress_bar.den
        /\ top_n_relevance.done => i > Len(df)

C10_Witness ==
    /\ top_n_relevance.done
    /\ Len(df) = 3
    /\ Eligible = {1, 3}
    /\ Len(scored) = 2
    /\ scored[2] = [row |-> 3, reply |-> <<" ", "7", ".", "5", "%">>]
    /\ df[3].relevance = [n |-> 75, e |-> 1]
    /\ df[2].relevance = Zero
    /\ progress_bar = [num |-> 2, den |-> 2]

====
